---- MODULE Spec2Model ----
(***************************************************************************)
(* Model of the numeric core of alpano's utils: the bisection root finder  *)
(* (improve_root, first_interval_containing_root) and the angle helpers    *)
(* (angular_distance, is_canonical, canonicalize, to_math, from_math,      *)
(* to_octant_str).                                                         *)
(*                                                                         *)
(* Numbers.  The root finder works on f64.  Its termination depends on the *)
(* precision of f64, so the model keeps a precision: a value is an integer *)
(* number of quanta and is representable iff it fits in MantBits           *)
(* significant bits (f64 has 53).  Every operation rounds to the nearest   *)
(* representable value, ties to even, as IEEE-754 does.  Below 2^MantBits  *)
(* the spacing is one quantum (the gradual-underflow range of the format). *)
(*                                                                         *)
(* Function values.  improve_root only ever reads f(x).signum(), so a      *)
(* function value is kept as its exact value and the sign bit of a zero.   *)
(*                                                                         *)
(* Angles.  The spec states the angle properties up to floating tolerance; *)
(* they are modelled in exact arithmetic on the grid of multiples of       *)
(* PI / Res (an angle is an integer number of grid steps, PI = Res steps). *)
(***************************************************************************)
EXTENDS Integers, Sequences, FiniteSets, TLC

\* ------------------------------------------------------------------ bounds

\* Significant bits of the scaled-down f64.
MantBits == 3

\* Bracket endpoints of improve_root range over the floats in -MaxX..MaxX.
MaxX == 10

\* Tolerances eps range over the floats in -1..MaxEps.
MaxEps == 10

\* The ghost iteration counter saturates here (the loop itself is not cut).
MaxIters == 6

\* ------------------------------------------------------- f64, scaled down

Abs(v) == IF v < 0 THEN -v ELSE v

RECURSIVE Pow2(_)
Pow2(n) == IF n <= 0 THEN 1 ELSE 2 * Pow2(n - 1)

\* Number of binary digits of n >= 0.
RECURSIVE BitLen(_)
BitLen(n) == IF n <= 0 THEN 0 ELSE 1 + BitLen(n \div 2)

\* Spacing of the representable values at magnitude |v|.
Ulp(v) ==
    IF BitLen(Abs(v)) <= MantBits THEN 1 ELSE Pow2(BitLen(Abs(v)) - MantBits)

IsFloat(v) == Abs(v) % Ulp(v) = 0

\* The rational n / d (d > 0) rounded to the nearest representable value,
\* ties to the even mantissa.
RoundF(n, d) ==
    LET a  == Abs(n)
        q  == a \div d
        u  == Ulp(q)
        lo == (q \div u) * u
        hi == lo + u
        r  == IF 2 * a < (lo + hi) * d THEN lo
              ELSE IF 2 * a > (lo + hi) * d THEN hi
              ELSE IF (lo \div u) % 2 = 0 THEN lo ELSE hi
    IN IF n < 0 THEN -r ELSE r

FAdd(x, y) == RoundF(x + y, 1)

FSub(x, y) == RoundF(x - y, 1)

FHalf(x) == RoundF(x, 2)

Floats(lo, hi) == {v \in lo..hi : IsFloat(v)}

\* --------------------------------------------- the function handed to the solver

\* A continuous scalar function: lead * (x - r1), or lead * (x - r1) * (x - r2).
\* zneg is the sign bit its zeros carry (sin(-0.0) and -(x - r) are -0.0).
Roots == {-5, 0, 3, 9}

Funs ==
    [kind : {"lin"}, r1 : Roots, r2 : {0}, lead : {-1, 1}, zneg : BOOLEAN]
    \cup {g \in [kind : {"quad"}, r1 : Roots, r2 : Roots, lead : {-1, 1},
                 zneg : {FALSE}] : g.r1 <= g.r2}

Eval(g, x) ==
    [val  |-> g.lead * (x - g.r1) * (IF g.kind = "quad" THEN x - g.r2 ELSE 1),
     zneg |-> g.zneg]

\* Faulty variant: a signum with zero as a class of its own.
Signum_ThreeWay(y) == IF y.val > 0 THEN 1 ELSE IF y.val < 0 THEN -1 ELSE 0

\* f64::signum: 1.0 for a positive value and +0.0, -1.0 for a negative value
\* and -0.0.
Signum(y) == IF y.val > 0 \/ (y.val = 0 /\ ~y.zneg) THEN 1 ELSE -1

\* ------------------------------------------------------------------ state

VARIABLES
    \* improve_root: its arguments f, x1, x2, eps (x1 and x2 are `mut`), the
    \* bracket a, b it was called with, its position pc, its result ret, and
    \* the number of loop iterations run so far (saturating at MaxIters).
    f, x1, x2, eps, a, b, pc, ret, iters,
    \* first_interval_containing_root: its arguments, the scan variable i, its
    \* position spc, its result sret, and the left edges tested so far.
    min_x, max_x, dx, i, spc, sret, visited,
    \* angular_distance, called as the symmetry test calls it: forward on
    \* (a1, a2), then backward on (a2, a1).
    a1, a2, d, drev, apc,
    \* azimuth: the input az0, the tokens, the calls made so far (hist) and the
    \* result of the last one (cur); oct is the result of to_octant_str.
    az0, toks, hist, cur, oct

rootVars == <<f, x1, x2, eps, a, b, pc, ret, iters>>

scanVars == <<min_x, max_x, dx, i, spc, sret, visited>>

angleVars == <<a1, a2, d, drev, apc>>

azVars == <<az0, toks, hist, cur, oct>>

vars == <<rootVars, scanVars, angleVars, azVars>>

\* Result<f64, ()>
Err == [tag |-> "Err", val |-> 0]

Ok(v) == [tag |-> "Ok", val |-> v]

\* No call has returned yet.
None == [tag |-> "None", val |-> 0]

IdleRoot ==
    /\ f = CHOOSE g \in Funs : TRUE
    /\ x1 = 0 /\ x2 = 0 /\ eps = 0 /\ a = 0 /\ b = 0
    /\ pc = "idle" /\ ret = None /\ iters = 0

IdleScan ==
    /\ min_x = 0 /\ max_x = 0 /\ dx = 0 /\ i = 0
    /\ spc = "idle" /\ sret = None /\ visited = <<>>

IdleAngle == a1 = 0 /\ a2 = 0 /\ d = 0 /\ drev = 0 /\ apc = "idle"

IdleAz ==
    /\ az0 = 0 /\ toks = <<"", "", "", "">> /\ hist = <<>>
    /\ cur = None /\ oct = [tag |-> "None", val |-> ""]

\* ------------------------------------------------------------ improve_root

\* Faulty variant: the entry check without `|| x1 > x2`.
NoBracket_SignOnly(g, lo, hi) == Signum(Eval(g, lo)) = Signum(Eval(g, hi))

\* if f(x1).signum() == f(x2).signum() || x1 > x2
NoBracket(g, lo, hi) ==
    Signum(Eval(g, lo)) = Signum(Eval(g, hi)) \/ lo > hi

\* while (x2 - x1) > eps
LoopGuard(lo, hi, e) == FSub(hi, lo) > e

\* let m = (x1 + x2) / 2.
Midpoint(lo, hi) == FHalf(FAdd(lo, hi))

\* Faulty variant: the midpoint compared with the right endpoint.
KeepsLeftSign_RightEnd(g, lo, hi, m) ==
    Signum(Eval(g, m)) = Signum(Eval(g, hi))

\* if f(m).signum() == f(x1).signum()
KeepsLeftSign(g, lo, hi, m) == Signum(Eval(g, m)) = Signum(Eval(g, lo))

Bump(n) == IF n < MaxIters THEN n + 1 ELSE n

ImproveRootCheck ==
    /\ pc = "check"
    /\ IF NoBracket(f, x1, x2)
       THEN /\ ret' = Err
            /\ pc' = "done"
       ELSE /\ ret' = ret
            /\ pc' = "loop"
    /\ UNCHANGED <<f, x1, x2, eps, a, b, iters>>
    /\ UNCHANGED <<scanVars, angleVars, azVars>>

ImproveRootStep ==
    /\ pc = "loop"
    /\ LoopGuard(x1, x2, eps)
    /\ LET m == Midpoint(x1, x2)
       IN IF KeepsLeftSign(f, x1, x2, m)
          THEN /\ x1' = m
               /\ x2' = x2
          ELSE /\ x2' = m
               /\ x1' = x1
    /\ iters' = Bump(iters)
    /\ UNCHANGED <<f, eps, a, b, pc, ret>>
    /\ UNCHANGED <<scanVars, angleVars, azVars>>

ImproveRootReturn ==
    /\ pc = "loop"
    /\ ~LoopGuard(x1, x2, eps)
    /\ ret' = Ok(x1)
    /\ pc' = "done"
    /\ UNCHANGED <<f, x1, x2, eps, a, b, iters>>
    /\ UNCHANGED <<scanVars, angleVars, azVars>>

InitRoot ==
    /\ f \in Funs
    /\ x1 \in Floats(-MaxX, MaxX)
    /\ x2 \in Floats(-MaxX, MaxX)
    /\ eps \in Floats(-1, MaxEps)
    /\ a = x1
    /\ b = x2
    /\ pc = "check"
    /\ ret = None
    /\ iters = 0
    /\ IdleScan /\ IdleAngle /\ IdleAz

NextRoot == ImproveRootCheck \/ ImproveRootStep \/ ImproveRootReturn

SpecRoot == InitRoot /\ [][NextRoot]_vars

\* ------------------------------------------ first_interval_containing_root

\* The fixed tolerance 1e-10 of the scan, in quanta.
ScanEps == 1

\* Scans start and end in -MaxScan..MaxScan with a step of 1..MaxDx; there
\* i + dx is exact.
MaxScan == 5

MaxDx == 3

Inf == [tag |-> "Inf", val |-> 0]

Val(v) == [tag |-> "Val", val |-> v]

\* Faulty variant: the scan returning the root improve_root refined.
ScanResult_Refined(edge, r) == Val(r.val)

\* return i;
ScanResult(edge, r) == Val(edge)

\* while i < max_x { if let Ok(_) = improve_root(f, i, i + dx, 1e-10)
ScanCall ==
    /\ spc = "scan"
    /\ i < max_x
    /\ x1' = i
    /\ x2' = FAdd(i, dx)
    /\ eps' = ScanEps
    /\ a' = x1'
    /\ b' = x2'
    /\ pc' = "check"
    /\ ret' = None
    /\ iters' = 0
    /\ spc' = "call"
    /\ UNCHANGED <<f, min_x, max_x, dx, i, sret, visited>>
    /\ UNCHANGED <<angleVars, azVars>>

\* improve_root has returned: return i, or i += dx
ScanResume ==
    /\ spc = "call"
    /\ pc = "done"
    /\ visited' = Append(visited, i)
    /\ IF ret.tag = "Ok"
       THEN /\ sret' = ScanResult(i, ret)
            /\ spc' = "done"
            /\ i' = i
       ELSE /\ i' = FAdd(i, dx)
            /\ spc' = "scan"
            /\ sret' = sret
    /\ pc' = "idle"
    /\ UNCHANGED <<f, x1, x2, eps, a, b, ret, iters, min_x, max_x, dx>>
    /\ UNCHANGED <<angleVars, azVars>>

\* f64::INFINITY
ScanExhausted ==
    /\ spc = "scan"
    /\ ~(i < max_x)
    /\ sret' = Inf
    /\ spc' = "done"
    /\ UNCHANGED <<rootVars, min_x, max_x, dx, i, visited>>
    /\ UNCHANGED <<angleVars, azVars>>

InitScan ==
    /\ f \in Funs
    /\ min_x \in Floats(-MaxScan, MaxScan)
    /\ max_x \in Floats(-MaxScan, MaxScan)
    /\ dx \in 1..MaxDx
    /\ i = min_x
    /\ spc = "scan"
    /\ sret = None
    /\ visited = <<>>
    /\ x1 = 0 /\ x2 = 0 /\ eps = 0 /\ a = 0 /\ b = 0
    /\ pc = "idle" /\ ret = None /\ iters = 0
    /\ IdleAngle /\ IdleAz

NextScan ==
    \/ ScanCall
    \/ ImproveRootCheck
    \/ ImproveRootStep
    \/ ImproveRootReturn
    \/ ScanResume
    \/ ScanExhausted

SpecScan == InitScan /\ [][NextScan]_vars

\* -------------------------------------------------------- angular_distance

\* Grid steps per half turn: PI is Res steps, an angle is a number of steps.
Res == 8

\* Free angles range over -MaxTurns..MaxTurns full turns.
MaxTurns == 2

PI == Res

TAU == 2 * PI

\* f64 `%`: the remainder takes the sign of the dividend (y > 0).
TruncRem(x, y) == IF x >= 0 THEN x % y ELSE -((-x) % y)

\* f64::rem_euclid: let r = self % rhs; if r < 0.0 { r + rhs.abs() } else { r }
RemEuclid(x, y) ==
    LET r == TruncRem(x, y)
    IN IF r < 0 THEN r + Abs(y) ELSE r

\* Faulty variant: the plain-modulo variant, without the correction.
AngularDistance_PlainModulo(p, q) == TruncRem(q - p + PI, TAU) - PI

\* Faulty variant: the correction applied at -PI too.
AngularDistance_ClosedAtMinusPi(p, q) ==
    LET diff == TruncRem(q - p + PI, TAU) - PI
    IN IF diff <= -PI THEN diff + TAU ELSE diff

AngularDistance(p, q) ==
    LET diff == TruncRem(q - p + PI, TAU) - PI
    IN IF diff < -PI THEN diff + TAU ELSE diff

\* angular_distance(a1, a2)
Forward ==
    /\ apc = "start"
    /\ d' = AngularDistance(a1, a2)
    /\ apc' = "forward"
    /\ UNCHANGED <<a1, a2, drev>>
    /\ UNCHANGED <<rootVars, scanVars, azVars>>

\* angular_distance(a2, a1)
Backward ==
    /\ apc = "forward"
    /\ drev' = AngularDistance(a2, a1)
    /\ apc' = "done"
    /\ UNCHANGED <<a1, a2, d>>
    /\ UNCHANGED <<rootVars, scanVars, azVars>>

InitAngle ==
    /\ a1 \in -(MaxTurns * TAU)..(MaxTurns * TAU)
    /\ a2 \in -(MaxTurns * TAU)..(MaxTurns * TAU)
    /\ d = 0
    /\ drev = 0
    /\ apc = "start"
    /\ IdleRoot /\ IdleScan /\ IdleAz

NextAngle == Forward \/ Backward

SpecAngle == InitAngle /\ [][NextAngle]_vars

\* ------------------------------------------------------------------ azimuth

\* At most this many conversions are chained.
MaxCalls == 2

\* (0.0..TAU).contains(&azimuth)
IsCanonical(z) == 0 <= z /\ z < TAU

Canonicalize(z) == RemEuclid(z, TAU)

\* Faulty variant: the reflection without the Euclidean remainder.
ToMath_NoWrap(z) == IF ~IsCanonical(z) THEN Err ELSE Ok(TAU - z)

ToMath(z) == IF ~IsCanonical(z) THEN Err ELSE Ok(RemEuclid(TAU - z, TAU))

FromMath(z) == IF ~IsCanonical(z) THEN Err ELSE ToMath(z)

\* Faulty variant: the bucket without the half-sector shift.
OctantVal_NoCentering(z) == (4 * z) \div PI

\* ((azimuth / inc) + 0.5).floor() as i32, with inc = FRAC_PI_4 = PI / 4
OctantVal(z) == (8 * z + PI) \div (2 * PI)

\* vec![n, n+e, e, s+e, s, s+w, w, n+w]
OctantTable(t) ==
    <<t[1], t[1] \o t[2], t[2], t[3] \o t[2], t[3], t[3] \o t[4], t[4],
      t[1] \o t[4]>>

\* arr.get((val % 8) as usize).unwrap(): a panic when the index is out of range
Panic == [tag |-> "Panic", val |-> ""]

\* Result<String, ()>: no call yet, Err(())
NoStr == [tag |-> "None", val |-> ""]

ErrStr == [tag |-> "Err", val |-> ""]

ToOctantStr(z, t) ==
    IF ~IsCanonical(z) THEN ErrStr
    ELSE LET idx == TruncRem(OctantVal(z), 8)
         IN IF idx \in 0..7 THEN Ok(OctantTable(t)[idx + 1]) ELSE Panic

CallToMath ==
    /\ Len(hist) < MaxCalls
    /\ cur.tag # "Err"
    /\ cur' = ToMath(IF hist = <<>> THEN az0 ELSE cur.val)
    /\ hist' = Append(hist, "to_math")
    /\ UNCHANGED <<az0, toks, oct>>
    /\ UNCHANGED <<rootVars, scanVars, angleVars>>

CallFromMath ==
    /\ Len(hist) < MaxCalls
    /\ cur.tag # "Err"
    /\ cur' = FromMath(IF hist = <<>> THEN az0 ELSE cur.val)
    /\ hist' = Append(hist, "from_math")
    /\ UNCHANGED <<az0, toks, oct>>
    /\ UNCHANGED <<rootVars, scanVars, angleVars>>

CallToOctantStr ==
    /\ oct = NoStr
    /\ oct' = ToOctantStr(az0, toks)
    /\ UNCHANGED <<az0, toks, hist, cur>>
    /\ UNCHANGED <<rootVars, scanVars, angleVars>>

TokenSets ==
    {<<"N", "E", "S", "W">>, <<"north", "east", "south", "west">>,
     <<"", "", "", "">>}

InitAzimuth ==
    /\ az0 \in -PI..(TAU + PI)
    /\ toks \in TokenSets
    /\ hist = <<>>
    /\ cur = None
    /\ oct = NoStr
    /\ IdleRoot /\ IdleScan /\ IdleAngle

NextAzimuth == CallToMath \/ CallFromMath \/ CallToOctantStr

SpecAzimuth == InitAzimuth /\ [][NextAzimuth]_vars

\* ------------------------------------------------------------------ claims

\* improve_root has passed its entry check.
Entered == pc \in {"loop", "done"}

\* The endpoints improve_root was called with carry the same f64 signum.
SameSignum(g, u, v) == Signum(Eval(g, u)) = Signum(Eval(g, v))

\* C1: improve_root returns the error, with no bisection step run and the
\* endpoints untouched, whenever x1 > x2 or signum(f(x1)) = signum(f(x2)); both
\* causes give the one value Err(()); for every other input it never returns
\* the error.
C1_ErrorIffNoBracket ==
    Entered =>
        IF a > b \/ SameSignum(f, a, b)
        THEN pc = "done" /\ ret = Err /\ iters = 0 /\ x1 = a /\ x2 = b
        ELSE ret # Err

\* A wrong-order call whose endpoint signs differ has returned the error.
C1_Witness ==
    pc = "done" /\ ret = Err /\ a > b /\ ~SameSignum(f, a, b) /\ eps > 0

\* C2: for eps > 0 and a bracket x1 < x2 with differing endpoint signs the
\* loop runs at most log2((x2 - x1) / eps) + 1 times, that is, a loop that has
\* run n >= 1 times satisfies 2^(n-1) * eps <= x2 - x1 (taken for the bracket
\* of the call).
C2_IterationBound ==
    (Entered /\ eps > 0 /\ a < b /\ ~SameSignum(f, a, b) /\ iters >= 1)
        => Pow2(iters - 1) * eps <= b - a

\* C3: a successful improve_root returns its final left endpoint x1, with
\* a <= x1 <= x2 <= b, x2 - x1 <= eps (the f64 difference the loop tests) and
\* differing signs of f at x1 and x2.
C3_ReturnsLeftEndpoint ==
    (pc = "done" /\ ret.tag = "Ok") =>
        /\ ret.val = x1
        /\ a <= x1 /\ x1 <= x2 /\ x2 <= b
        /\ FSub(x2, x1) <= eps
        /\ ~SameSignum(f, x1, x2)

\* A call that bisected at least twice and moved both endpoints has returned.
C3_Witness ==
    /\ pc = "done" /\ ret.tag = "Ok" /\ spc = "idle"
    /\ iters >= 2 /\ a < x1 /\ x2 < b

\* C9: improve_root called with eps <= 0 on an otherwise valid bracket
\* (x1 < x2, differing endpoint signs) is rejected with the error and never
\* enters the bisection loop.
C9_RejectsDegenerateEps ==
    (pc # "check" /\ spc = "idle" /\ eps <= 0 /\ a < b /\ ~SameSignum(f, a, b))
        => (pc = "done" /\ ret = Err)

\* The sign of a function value with zero as a class of its own.
Sign3(y) == IF y.val > 0 THEN 1 ELSE IF y.val < 0 THEN -1 ELSE 0

\* The sign of a function value with zero classed by its sign bit.
SignBit(y) ==
    IF y.val > 0 THEN 1 ELSE IF y.val < 0 THEN -1 ELSE IF y.zneg THEN -1 ELSE 1

\* C10 as claimed: the bracket check compares three-way signs, zero being a
\* class of its own, so an interval with f(x1) = 0 and f(x2) > 0 is accepted.
C10_ZeroIsOwnSignClass ==
    (Entered /\ a <= b) =>
        ((ret = Err) <=> (Sign3(Eval(f, a)) = Sign3(Eval(f, b))))

\* C10 as amended: the sign comparison has two classes and a zero takes the
\* class of its sign bit (+0.0 with the positive values, -0.0 with the
\* negative ones), in the bracket check and in the choice of the endpoint the
\* midpoint replaces: a midpoint with f(m) = 0 replaces x1 exactly when f(x1)
\* has the class of that zero.
C10_ZeroTakesItsSignBit ==
    /\ [](Entered /\ a <= b =>
            ((ret = Err) <=> (SignBit(Eval(f, a)) = SignBit(Eval(f, b)))))
    /\ [][(pc = "loop" /\ pc' = "loop" /\ Eval(f, Midpoint(x1, x2)).val = 0)
            => ((x1' = Midpoint(x1, x2) /\ x2' = x2)
                  <=> (SignBit(Eval(f, x1))
                         = SignBit(Eval(f, Midpoint(x1, x2)))))]_vars

\* An interval with f(x1) = +0.0 and f(x2) > 0 has been rejected.
C10_Witness ==
    /\ pc = "done" /\ ret = Err /\ a < b
    /\ Eval(f, a).val = 0 /\ ~f.zneg /\ Eval(f, b).val > 0

\* The exact left edges min_x + k * dx below max_x.
Edges == {e \in min_x..(max_x - 1) : (e - min_x) % dx = 0}

\* The edges whose sub-interval [e, e + dx] brackets a sign change.
Hits == {e \in Edges : ~SameSignum(f, e, e + dx)}

Least(S) == CHOOSE m \in S : \A y \in S : m <= y

\* C4: the scan tests the left edges min_x, min_x + dx, ... below max_x in
\* increasing order and returns the first edge whose sub-interval brackets a
\* sign change (the edge, not the refined root), or +infinity when none does.
C4_FirstBracketingEdge ==
    spc \in {"scan", "call", "done"} =>
        /\ \A k \in 1..Len(visited) :
              visited[k] = min_x + (k - 1) * dx /\ visited[k] < max_x
        /\ spc = "done" =>
              IF Hits = {}
              THEN sret = Inf /\ Len(visited) = Cardinality(Edges)
              ELSE /\ sret = Val(Least(Hits))
                   /\ visited[Len(visited)] = Least(Hits)

\* A scan returned its third or later edge, and the root the inner bisection
\* refined is another value.
C4_Witness ==
    /\ spc = "done" /\ sret.tag = "Val" /\ Len(visited) >= 3
    /\ ret.tag = "Ok" /\ ret.val # sret.val

\* C5 as claimed: angular_distance(a1, a2) + angular_distance(a2, a1) = 0 for
\* all angles, odd multiples of pi included.
C5_Antisymmetric == apc = "done" => d + drev = 0

\* C5 as amended: the two distances are negations of each other unless a2 - a1
\* is an odd multiple of pi, where both are -pi.
C5_AntisymmetricOffHalfTurn ==
    apc = "done" =>
        IF (a2 - a1 - PI) % TAU = 0
        THEN d = -PI /\ drev = -PI
        ELSE d + drev = 0

\* Both calls ran on angles more than a turn apart and gave opposite non-zero
\* distances.
C5_Witness ==
    apc = "done" /\ a2 - a1 > TAU /\ d > 0 /\ drev = -d

\* C6: angular_distance(a1, a2) lies in [-pi, pi) and is congruent to a2 - a1
\* modulo 2 pi, for all angles.
C6_RangeAndCongruence ==
    apc \in {"forward", "done"} =>
        /\ -PI <= d /\ d < PI
        /\ (d - (a2 - a1)) % TAU = 0

\* The difference was more than a turn and a half below zero, where the
\* truncating remainder is negative and the correction applies.
C6_Witness ==
    apc = "forward" /\ a2 - a1 < -(TAU + PI) /\ d > 0

\* C7: for canonical x, to_math(x) and from_math(x) both give (2 pi - x)
\* reduced into [0, 2 pi) (0 for x = 0), a canonical value, and applying the
\* other conversion to the result gives x back.
C7_ReflectionSelfInverse ==
    (0 <= az0 /\ az0 < TAU) =>
        /\ Len(hist) = 1 =>
              /\ cur = Ok(IF az0 = 0 THEN 0 ELSE TAU - az0)
              /\ 0 <= cur.val /\ cur.val < TAU
        /\ (Len(hist) = 2 /\ hist[1] # hist[2]) => cur = Ok(az0)

\* from_math(to_math(0)) has been computed.
C7_Witness ==
    hist = <<"to_math", "from_math">> /\ az0 = 0 /\ cur.tag = "Ok"

\* The label of sector j for the tokens t.
Label(j, t) ==
    CASE j = 0 -> t[1]
      [] j = 1 -> t[1] \o t[2]
      [] j = 2 -> t[2]
      [] j = 3 -> t[3] \o t[2]
      [] j = 4 -> t[3]
      [] j = 5 -> t[3] \o t[4]
      [] j = 6 -> t[4]
      [] j = 7 -> t[1] \o t[4]

\* C8: to_octant_str fails for every az outside [0, 2 pi); for canonical az it
\* returns the label of the sector k mod 8, where sector k is bounded by the odd
\* multiples (2k - 1) pi / 8 and (2k + 1) pi / 8, and never indexes out of
\* range.
C8_OctantLabel ==
    oct # NoStr =>
        IF az0 < 0 \/ az0 >= TAU
        THEN oct = ErrStr
        ELSE \E k \in 0..8 :
                /\ (2 * k - 1) * PI <= 8 * az0
                /\ 8 * az0 < (2 * k + 1) * PI
                /\ oct = [tag |-> "Ok", val |-> Label(k % 8, toks)]

\* An azimuth in the last half sector below 2 pi was labelled n.
C8_Witness ==
    /\ 15 * PI <= 8 * az0 /\ az0 < TAU
    /\ toks[1] = "N" /\ oct = [tag |-> "Ok", val |-> "N"]

====
